---- MODULE Spec2Model ----
(***************************************************************************)
(* Model of merge_claude_settings.py: discovery of the                     *)
(* .claude/settings.local.json files under a root, extraction and union of *)
(* their permissions.allow lists, and the update of the output settings    *)
(* document.                                                               *)
(*                                                                         *)
(* A file's content is a sequence of JSON tokens.  A string literal is one *)
(* token (written with its quotes), so json.loads, json.dump and the       *)
(* trailing-comma regular expression are modelled by what they do to the   *)
(* token sequence.  A parsed JSON value is kept as its token sequence      *)
(* without whitespace.  The JSON values of the model are strings, null,    *)
(* lists and objects.  What the program prints is not part of the state.   *)
(***************************************************************************)
EXTENDS Integers, Sequences, FiniteSets

\* ------------------------------------------------------------------ tokens
KPerm  == "\"permissions\""
KAllow == "\"allow\""
KDeny  == "\"deny\""
KAsk   == "\"ask\""
KModel == "\"model\""
VX     == "\"x\""

PA == "\"A\""
PB == "\"B\""
\* a string holding the characters  ,]  and what the regular expression of
\* line 122 turns it into
PCut      == "\"C,]\""
PCutFixed == "\"C]\""
\* the JSON escape of a lone surrogate: json.load accepts it, the utf-8
\* encoder of the output stream does not
PSur == "\"\\ud800\""

StrToks == {KPerm, KAllow, KDeny, KAsk, KModel, VX, PA, PB, PCut, PCutFixed, PSur}
Scalars == StrToks \cup {"null"}
WsToks  == {" ", "\n"}

\* code point order of the string literals (what sorted() compares)
CodePointOrder == << PA, PB, PCut, PCutFixed, KAllow, KAsk, KDeny, KModel, KPerm, VX, PSur >>
Rank(t) == CHOOSE i \in 1..Len(CodePointOrder) : CodePointOrder[i] = t

NoFile == << "ENOENT" >>
JSONDecodeError == << "JSONDecodeError" >>
EmptyDict == << "{", "}" >>
EmptyList == << "[", "]" >>

\* ------------------------------------------------------------- json.loads
StripWs(s) == SelectSeq(s, LAMBDA t : t \notin WsToks)

Tok(t, i) == IF i >= 1 /\ i <= Len(t) THEN t[i] ELSE "EOF"

RECURSIVE ValueEnd(_, _), ElemsEnd(_, _), MembersEnd(_, _)
\* index just after the JSON value that starts at t[i]; 0 when malformed
ValueEnd(t, i) ==
    CASE Tok(t, i) \in Scalars -> i + 1
      [] Tok(t, i) = "[" -> IF Tok(t, i + 1) = "]" THEN i + 2 ELSE ElemsEnd(t, i + 1)
      [] Tok(t, i) = "{" -> IF Tok(t, i + 1) = "}" THEN i + 2 ELSE MembersEnd(t, i + 1)
      [] OTHER -> 0

ElemsEnd(t, i) ==
    LET e == ValueEnd(t, i) IN
    CASE e = 0 -> 0
      [] Tok(t, e) = "," -> ElemsEnd(t, e + 1)
      [] Tok(t, e) = "]" -> e + 1
      [] OTHER -> 0

MembersEnd(t, i) ==
    IF Tok(t, i) \in StrToks /\ Tok(t, i + 1) = ":"
    THEN LET e == ValueEnd(t, i + 2) IN
         CASE e = 0 -> 0
           [] Tok(t, e) = "," -> MembersEnd(t, e + 1)
           [] Tok(t, e) = "}" -> e + 1
           [] OTHER -> 0
    ELSE 0

Loads(content) ==
    LET t == StripWs(content) IN
    IF content # NoFile /\ ValueEnd(t, 1) = Len(t) + 1 THEN t ELSE JSONDecodeError

\* --------------------------------------------------- parsed value access
IsDict(v) == Tok(v, 1) = "{"
IsList(v) == Tok(v, 1) = "["

RECURSIVE FindKey(_, _, _, _)
\* index of the value stored under key in the dict v (a repeated key keeps
\* its last value), 0 when the key is absent
FindKey(v, i, key, acc) ==
    IF Tok(v, i) \notin StrToks THEN acc
    ELSE LET e    == ValueEnd(v, i + 2)
             acc2 == IF v[i] = key THEN i + 2 ELSE acc
         IN IF Tok(v, e) = "," THEN FindKey(v, e + 1, key, acc2) ELSE acc2

Has(v, key) == IsDict(v) /\ FindKey(v, 2, key, 0) # 0

Get(v, key) ==
    LET p == FindKey(v, 2, key, 0) IN SubSeq(v, p, ValueEnd(v, p) - 1)

SetItem(v, key, val) ==
    IF Has(v, key)
    THEN LET p == FindKey(v, 2, key, 0) IN
         SubSeq(v, 1, p - 1) \o val \o SubSeq(v, ValueEnd(v, p), Len(v))
    ELSE IF v = EmptyDict
         THEN << "{", key, ":" >> \o val \o << "}" >>
         ELSE SubSeq(v, 1, Len(v) - 1) \o << ",", key, ":" >> \o val \o << "}" >>

\* set(list) for a list of scalars
Elements(v) == { v[i] : i \in 2..(Len(v) - 1) } \ {","}

\* -------------------------------------------------------------- sorted()
\* None and str do not compare: sorted() raises TypeError on a mixed set
Unsortable(S) == "null" \in S /\ Cardinality(S) > 1

RECURSIVE Sorted(_)
Sorted(S) ==
    IF S = {} THEN << >>
    ELSE LET m == CHOOSE x \in S : \A y \in S : x = "null" \/ Rank(x) <= Rank(y)
         IN << m >> \o Sorted(S \ {m})

RECURSIVE Join(_)
Join(items) ==
    IF Len(items) = 0 THEN << >>
    ELSE IF Len(items) = 1 THEN << items[1] >>
    ELSE << items[1], "," >> \o Join(Tail(items))

\* the JSON list holding the scalars of items, in that order
ListOf(items) == << "[" >> \o Join(items) \o << "]" >>

\* -------------------------------------------------------------- json.dump
\* json.dump(indent=2): a newline and indentation after an opening bracket
\* and before a closing one (not in an empty container), after each comma,
\* and a blank after each colon; then the "\n" of line 168
RECURSIVE Indented(_, _)
Indented(v, i) ==
    IF i > Len(v) THEN << >>
    ELSE LET t       == v[i]
             empty   == (t \in {"{", "["} /\ Tok(v, i + 1) \in {"}", "]"})
                        \/ (t \in {"}", "]"} /\ Tok(v, i - 1) \in {"{", "["})
             before  == IF t \in {"}", "]"} /\ ~empty THEN << " " >> ELSE << >>
             after   == IF (t \in {"{", "["} /\ ~empty) \/ t \in {",", ":"}
                        THEN << " " >> ELSE << >>
         IN before \o << t >> \o after \o Indented(v, i + 1)

Dump(v) == Indented(v, 1) \o << "\n" >>

\* the utf-8 stream cannot encode a lone surrogate (ensure_ascii=False
\* writes the character itself)
Encodable(t) == t # PSur

\* what reaches the file when the encoder fails: the chunks written before
\* the failing one.  A list item is written in one chunk with the separator
\* in front of it, so that separator is not written either.
RECURSIVE DropTrailing(_)
DropTrailing(s) ==
    IF Len(s) > 0 /\ s[Len(s)] \in {" ", ",", "["}
    THEN DropTrailing(SubSeq(s, 1, Len(s) - 1)) ELSE s

FirstBad(s) == CHOOSE i \in 1..Len(s) : ~Encodable(s[i]) /\ \A j \in 1..(i - 1) : Encodable(s[j])

PartialDump(v) ==
    LET s == Indented(v, 1) IN DropTrailing(SubSeq(s, 1, FirstBad(s) - 1))

\* ------------------------------------------------- re.sub (line 122)
\* the regular expression inside one string literal
FixStr(t) == IF t = PCut THEN PCutFixed ELSE t

RECURSIVE SkipWs(_, _)
SkipWs(s, i) == IF Tok(s, i) \in WsToks THEN SkipWs(s, i + 1) ELSE i

RECURSIVE RepairNoSpace(_, _)
\* ,([}\]]) -> \1 : the expression without its \s*
RepairNoSpace(s, i) ==
    IF i > Len(s) THEN << >>
    ELSE IF s[i] = "," /\ Tok(s, i + 1) \in {"}", "]"}
         THEN RepairNoSpace(s, i + 1)
         ELSE << FixStr(s[i]) >> \o RepairNoSpace(s, i + 1)

RECURSIVE Repair(_, _)
\* ,\s*([}\]]) -> \1 : a comma, any whitespace and a closing bracket become
\* the closing bracket; the expression does not know where strings are
Repair(s, i) ==
    IF i > Len(s) THEN << >>
    ELSE IF s[i] = "," /\ Tok(s, SkipWs(s, i + 1)) \in {"}", "]"}
         THEN Repair(s, SkipWs(s, i + 1))
         ELSE << FixStr(s[i]) >> \o Repair(s, i + 1)

\* ================================================================ program
\* ---------------------------------------------------------- file system
InA == "a/.claude/settings.local.json"
InB == "b/.claude/settings.local.json"
Out == "conf/.claude/settings.json"
\* the paths the glob pattern of line 31 matches, in sorted order
PatternPaths == << InA, InB >>
InputPaths   == { PatternPaths[i] : i \in 1..Len(PatternPaths) }
Paths        == InputPaths \cup {Out}

\* {"permissions": {"allow": items}}
AllowDoc(items) == << "{", KPerm, ":", "{", KAllow, ":" >> \o ListOf(items) \o << "}", "}" >>

MalformedInput == << "{", KPerm, ":", "{", KAllow, ":", "[", PA >>

\* the contents an input file takes in the model
InputContents ==
    { AllowDoc(<< PB, PA >>),
      AllowDoc(<< PA >>),
      AllowDoc(<< PSur >>),
      AllowDoc(<< "null" >>),
      << "{", KModel, ":", VX, "}" >>,
      EmptyList,
      MalformedInput }

\* the contents the output file starts with in the model
WellFormedOutputs ==
    { << "{", " ", KModel, ":", " ", VX, ",", " ", KPerm, ":", " ", "{", " ",
         KAllow, ":", " ", "[", " ", PB, " ", "]", ",", " ",
         KDeny, ":", " ", "[", " ", PA, " ", "]", " ", "}", " ", "}", "\n" >>,
      << "{", KModel, ":", VX, "}" >>,
      << "{", KPerm, ":", "{", KAsk, ":", "[", PB, "]", "}", "}" >> }

TrailingCommaOutputs ==
    { << "{", KModel, ":", VX, ",", KPerm, ":", "{", KAllow, ":", "[", PB, ",", " ", "]", ",",
         KDeny, ":", "[", PA, "]", ",", "\n", "}", ",", "}" >>,
      << "{", KModel, ":", PCut, ",", KPerm, ":", "{", KAllow, ":", "[", PCut, ",", "]", "}", "}" >> }

OddOutputs ==
    { << "{", KModel, ":", VX, ",", KPerm, ":", "{", KAllow, ":", "[", PB >>,
      << "{", KModel, ":", VX, ",", ",", "}" >>,
      EmptyList,
      << "{", KPerm, ":", "[", "]", "}" >>,
      << "{", KModel, ":", VX, ",", KPerm, ":", "{", KAllow, ":", "null", ",", KDeny, ":", "[", PA, "]", "}", "}" >>,
      AllowDoc(<< "null" >>) }

OutputContents == WellFormedOutputs \cup TrailingCommaOutputs \cup OddOutputs

\* ------------------------------------------------- find_settings_files
find_settings_files(fsys) == SelectSeq(PatternPaths, LAMBDA p : fsys[p] # NoFile)

\* ------------------------------------------- extract_allow_permissions
\* set() raises TypeError on a list holding a list or a dict
Hashable(v) == \A i \in 2..(Len(v) - 1) : v[i] \in Scalars \cup {","}

\* dict.get(key, default)
GetOr(v, key, default) == IF Has(v, key) THEN Get(v, key) ELSE default

extract_allow_permissions(content) ==
    LET data        == Loads(content)
        permissions == GetOr(data, KPerm, EmptyDict)
        allow_list  == GetOr(permissions, KAllow, EmptyList)
    IN CASE data = JSONDecodeError -> {}        \* lines 58-60
         [] ~IsDict(data) -> {}                 \* AttributeError, lines 61-63
         [] ~IsDict(permissions) -> {}          \* AttributeError, lines 61-63
         [] IsList(allow_list) /\ Hashable(allow_list) -> Elements(allow_list)
         [] OTHER -> {}                         \* TypeError of set(), lines 61-63

\* ------------------------------------------------- update_settings_file
\* lines 115-123: json.loads, and on JSONDecodeError the regular expression
\* and json.loads again
LoadExisting(content) ==
    IF Loads(content) # JSONDecodeError THEN Loads(content)
    ELSE Loads(Repair(content, 1))

\* the inner try statement without its except clause: what json.loads
\* gave is kept, parsed or not
ExistingSettingsNoReset(content) ==
    IF content = NoFile THEN EmptyDict ELSE LoadExisting(content)

\* lines 106, 109-147: existing_settings after the inner try statement
ExistingSettings(content) ==
    IF content = NoFile \/ LoadExisting(content) = JSONDecodeError
    THEN EmptyDict
    ELSE LoadExisting(content)

\* lines 107, 131-147: existing_allow after the inner try statement
ExistingAllow(content) ==
    LET es == ExistingSettings(content) IN
    IF content # NoFile
       /\ Has(es, KPerm) /\ Has(Get(es, KPerm), KAllow)
       /\ IsList(Get(Get(es, KPerm), KAllow)) /\ Hashable(Get(Get(es, KPerm), KAllow))
    THEN Elements(Get(Get(es, KPerm), KAllow))
    ELSE {}

\* the new set alone, the existing entries forgotten
MergedAllowNewOnly(existing_allow, permissions) == permissions

\* line 154
MergedAllow(existing_allow, permissions) == existing_allow \cup permissions

\* lines 150-163 raise TypeError: existing_settings or its "permissions" is
\* not a dict, or sorted() meets None among strings
UpdateTypeError(es, merged_allow) ==
    \/ ~IsDict(es)
    \/ Has(es, KPerm) /\ ~IsDict(Get(es, KPerm))
    \/ Unsortable(merged_allow)

\* lines 160-163
WithDefault(perm, key) == IF Has(perm, key) THEN perm ELSE SetItem(perm, key, EmptyList)

\* lines 150-163: the document that is written
UpdatedSettings(es, merged_allow) ==
    LET perm == GetOr(es, KPerm, EmptyDict)
        p1   == SetItem(perm, KAllow, ListOf(Sorted(merged_allow)))
    IN SetItem(es, KPerm, WithDefault(WithDefault(p1, KDeny), KAsk))

\* line 166: open(output_path, "w") creates the file but not its directory
OpenFails(content, dirExists) == content = NoFile /\ ~dirExists

EncodeFails(v) == \E i \in 1..Len(v) : ~Encodable(v[i])

\* lines 166-168: the content of the output file after the with statement
Written(v) == IF EncodeFails(v) THEN PartialDump(v) ELSE Dump(v)

\* the write lands in the last input file found instead of output_path
WriteFileLastFound(fsys, path, content) ==
    IF find_settings_files(fsys) = << >> THEN [fsys EXCEPT ![path] = content]
    ELSE [fsys EXCEPT ![find_settings_files(fsys)[Len(find_settings_files(fsys))]] = content]

\* lines 166-168: the file at path is replaced, no other file is touched
WriteFile(fsys, path, content) == [fsys EXCEPT ![path] = content]

\* the whole function: the file system after it, whether line 182 was
\* reached, and new_permissions of line 171
update_settings_file(fsys, output_path, permissions, dirExists) ==
    LET content      == fsys[output_path]
        es           == ExistingSettings(content)
        ea           == ExistingAllow(content)
        merged_allow == MergedAllow(ea, permissions)
    IN IF UpdateTypeError(es, merged_allow) \/ OpenFails(content, dirExists)
       THEN [fs |-> fsys, raised |-> TRUE, new_permissions |-> {}]
       ELSE LET v == UpdatedSettings(es, merged_allow) IN
            [fs |-> WriteFile(fsys, output_path, Written(v)),
             raised |-> EncodeFails(v),
             new_permissions |-> IF EncodeFails(v) THEN {} ELSE permissions \ ea]

\* ------------------------------------------------------------------ state
MaxRuns == 2

VARIABLES
    fs,               \* path -> content of the file, NoFile when absent
    root,             \* what args.directory names: "dir", "missing" or "file"
    output_path,      \* args.output
    outDirExists,     \* the directory of output_path exists
    pc,               \* position of the run: idle, merge, update, done
    settings_files,   \* main: the discovered files
    idx,              \* merge_permissions: position of the loop of line 79
    all_permissions,  \* merge_permissions / merged_permissions of main
    exit_code,        \* exit status of the process, -1 while it runs
    runs,             \* runs started so far
    pre,              \* the file system when the current run started
    readFiles,        \* input files opened by extract_allow_permissions
    updateCalled,     \* update_settings_file was entered
    raised,           \* update_settings_file reached line 182
    new_permissions,  \* line 171
    edited,           \* an input file changed since the last run started
    rerun             \* this run follows another one with nothing changed

vars == << fs, root, output_path, outDirExists, pc, settings_files, idx,
           all_permissions, exit_code, runs, pre, readFiles, updateCalled,
           raised, new_permissions, edited, rerun >>

static == << root, output_path, outDirExists >>

\* the values of the variables of a run before it starts
Fresh(f) ==
    /\ settings_files = << >>
    /\ idx = 1
    /\ all_permissions = {}
    /\ exit_code = -1
    /\ pre = f
    /\ readFiles = {}
    /\ updateCalled = FALSE
    /\ raised = FALSE
    /\ new_permissions = {}

\* a file system there can be: nothing lies under a root that is no
\* directory, and a file lies in a directory that exists.  args.output
\* names either a file of its own or the first input file; in the second
\* case the file at the default output path, which no run opens, is absent.
Init ==
    /\ root \in {"dir", "missing", "file"}
    /\ output_path \in {Out, InA}
    /\ outDirExists \in BOOLEAN
    /\ fs \in [Paths -> InputContents \cup OutputContents \cup {NoFile}]
    /\ \A p \in InputPaths : fs[p] \in InputContents \cup {NoFile}
    /\ fs[Out] \in OutputContents \cup {NoFile}
    /\ root # "dir" => \A p \in InputPaths : fs[p] = NoFile
    /\ fs[output_path] # NoFile => outDirExists
    /\ output_path # Out => fs[Out] = NoFile
    /\ pc = "idle"
    /\ runs = 0
    /\ edited = FALSE
    /\ rerun = FALSE
    /\ Fresh(fs)

\* ----------------------------------------------------------------- main
\* the root taken as it comes
RootUnchecked(r) == TRUE

\* lines 216-222: the root exists and is a directory
RootIsValid(r) == r = "dir"

\* the merged set never taken for empty
NeverEmpty(permissions) == FALSE

\* line 239: not merged_permissions
NothingToMerge(permissions) == permissions = {}

\* lines 211-232: the checks of the root directory and the discovery
MainStart ==
    /\ pc \in {"idle", "done"}
    /\ runs < MaxRuns
    /\ runs' = runs + 1
    /\ rerun' = (runs >= 1 /\ ~edited)
    /\ edited' = FALSE
    /\ pre' = fs
    /\ idx' = 1
    /\ all_permissions' = {}
    /\ readFiles' = {}
    /\ updateCalled' = FALSE
    /\ raised' = FALSE
    /\ new_permissions' = {}
    /\ IF ~RootIsValid(root)
       THEN /\ settings_files' = << >>
            /\ exit_code' = 1                                    \* lines 216-222
            /\ pc' = "done"
       ELSE /\ settings_files' = find_settings_files(fs)
            /\ IF find_settings_files(fs) = << >>
               THEN exit_code' = 0 /\ pc' = "done"               \* lines 230-232
               ELSE exit_code' = -1 /\ pc' = "merge"
    /\ UNCHANGED << fs, static >>

\* one pass of the loop with no except clause in extract_allow_permissions:
\* a file that does not parse ends the run
MergeStepAborting ==
    /\ pc = "merge"
    /\ idx <= Len(settings_files)
    /\ IF Loads(fs[settings_files[idx]]) = JSONDecodeError
       THEN /\ exit_code' = 1
            /\ pc' = "done"
            /\ UNCHANGED all_permissions
       ELSE /\ all_permissions' =
                  all_permissions \cup extract_allow_permissions(fs[settings_files[idx]])
            /\ UNCHANGED << exit_code, pc >>
    /\ readFiles' = readFiles \cup {settings_files[idx]}
    /\ idx' = idx + 1
    /\ UNCHANGED << fs, static, settings_files, runs, pre,
                    updateCalled, raised, new_permissions, edited, rerun >>

\* lines 79-90: one pass of the loop of merge_permissions
MergeStep ==
    /\ pc = "merge"
    /\ idx <= Len(settings_files)
    /\ all_permissions' =
          all_permissions \cup extract_allow_permissions(fs[settings_files[idx]])
    /\ readFiles' = readFiles \cup {settings_files[idx]}
    /\ idx' = idx + 1
    /\ UNCHANGED << fs, static, pc, settings_files, exit_code, runs, pre,
                    updateCalled, raised, new_permissions, edited, rerun >>

\* lines 92, 237-241: the loop is over, main looks at the merged set
MainCheckMerged ==
    /\ pc = "merge"
    /\ idx > Len(settings_files)
    /\ IF NothingToMerge(all_permissions)
       THEN exit_code' = 0 /\ pc' = "done"
       ELSE exit_code' = -1 /\ pc' = "update"
    /\ UNCHANGED << fs, static, settings_files, idx, all_permissions, runs, pre,
                    readFiles, updateCalled, raised, new_permissions, edited, rerun >>

\* lines 251-257 and 95-182
UpdateSettingsFile ==
    /\ pc = "update"
    /\ LET r == update_settings_file(fs, output_path, all_permissions, outDirExists) IN
       /\ fs' = r.fs
       /\ raised' = r.raised
       /\ new_permissions' = r.new_permissions
       /\ exit_code' = IF r.raised THEN 1 ELSE 0
    /\ updateCalled' = TRUE
    /\ pc' = "done"
    /\ UNCHANGED << static, settings_files, idx, all_permissions, runs, pre,
                    readFiles, edited, rerun >>

\* ----------------------------------------------------------- environment
\* between two runs somebody rewrites, creates or deletes an input file
\* that is not the output file
EditInput ==
    /\ pc \in {"idle", "done"}
    /\ runs < MaxRuns
    /\ root = "dir"
    /\ \E p \in InputPaths \ {output_path}, c \in InputContents \cup {NoFile} :
          /\ c # fs[p]
          /\ fs' = [fs EXCEPT ![p] = c]
    /\ pc' = "idle"
    /\ edited' = TRUE
    /\ settings_files' = << >>
    /\ idx' = 1
    /\ all_permissions' = {}
    /\ exit_code' = -1
    /\ pre' = fs'
    /\ readFiles' = {}
    /\ updateCalled' = FALSE
    /\ raised' = FALSE
    /\ new_permissions' = {}
    /\ UNCHANGED << static, runs, rerun >>

Next ==
    \/ MainStart
    \/ MergeStep
    \/ MainCheckMerged
    \/ UpdateSettingsFile
    \/ EditInput

Spec == Init /\ [][Next]_vars

\* ============================================================= properties
\* ------------------------------------------------ what the properties use
ERR == JSONDecodeError

\* the input files the run discovered: those present when it started
Discovered == { p \in InputPaths : pre[p] # NoFile }

\* the entries of permissions.allow of a JSON text, {} when it has none
AllowIn(c) ==
    LET d == Loads(c) IN
    IF Has(d, KPerm) /\ Has(Get(d, KPerm), KAllow) /\ IsList(Get(Get(d, KPerm), KAllow))
    THEN Elements(Get(Get(d, KPerm), KAllow))
    ELSE {}

\* the union of the allow lists of the discovered files that parse
InputUnion == UNION { AllowIn(pre[p]) : p \in Discovered }

\* the items of a JSON list of scalars, in order
Items(l) == SelectSeq(SubSeq(l, 2, Len(l) - 1), LAMBDA t : t # ",")

StrictlyAscending(l) ==
    \A i, j \in 1..Len(Items(l)) : i < j => Rank(Items(l)[i]) < Rank(Items(l)[j])

\* the document the output file holds now
After == Loads(fs[output_path])
AfterPerm  == GetOr(After, KPerm, EmptyDict)
AfterAllow == GetOr(AfterPerm, KAllow, << "none" >>)

WroteOk == pc = "done" /\ updateCalled /\ ~raised

\* {"permissions": {"allow": items, "deny": [], "ask": []}}
CreatedDoc(items) ==
    << "{", KPerm, ":", "{", KAllow, ":" >> \o ListOf(items)
       \o << ",", KDeny, ":", "[", "]", ",", KAsk, ":", "[", "]", "}", "}" >>

\* v without its member key
RemoveKey(v, key) ==
    IF ~Has(v, key) THEN v
    ELSE LET p == FindKey(v, 2, key, 0)
             e == ValueEnd(v, p)
         IN IF Tok(v, e) = ","
            THEN SubSeq(v, 1, p - 3) \o SubSeq(v, e + 1, Len(v))
            ELSE IF p - 2 > 2
                 THEN SubSeq(v, 1, p - 4) \o SubSeq(v, e, Len(v))
                 ELSE SubSeq(v, 1, p - 3) \o SubSeq(v, e, Len(v))

\* a content that json.loads refuses and the repair pass does not mend
Unparseable(c) == c # NoFile /\ Loads(c) = ERR /\ Loads(Repair(c, 1)) = ERR

RECURSIVE DropTrailingCommas(_, _)
\* the text without the commas that stand before a closing bracket,
\* strings left as they are
DropTrailingCommas(s, i) ==
    IF i > Len(s) THEN << >>
    ELSE IF s[i] = "," /\ Tok(s, SkipWs(s, i + 1)) \in {"}", "]"}
         THEN DropTrailingCommas(s, i + 1)
         ELSE << s[i] >> \o DropTrailingCommas(s, i + 1)

\* a text that is JSON but for trailing commas
TrailingCommaOnly(c) ==
    c # NoFile /\ Loads(c) = ERR /\ Loads(DropTrailingCommas(c, 1)) # ERR

\* the document a text stands for: itself, or itself without its trailing
\* commas
Denoted(c) == IF Loads(c) # ERR THEN Loads(c) ELSE Loads(DropTrailingCommas(c, 1))

IsFlatList(l) == IsList(l) /\ \A i \in 2..(Len(l) - 1) : l[i] \in Scalars \cup {","}

\* a settings document: a JSON object whose permissions, when present, is
\* an object whose allow, deny and ask, when present, are lists of entries
WellFormed(c) ==
    /\ IsDict(Loads(c))
    /\ Has(Loads(c), KPerm) =>
          /\ IsDict(Get(Loads(c), KPerm))
          /\ \A k \in {KAllow, KDeny, KAsk} :
                Has(Get(Loads(c), KPerm), k) => IsFlatList(Get(Get(Loads(c), KPerm), k))

\* ------------------------------------------------------------------- C1
\* C1: after a run that reaches update_settings_file and writes, with the
\* output file absent or parsing as JSON beforehand, permissions.allow of
\* the output is a list, strictly ascending in code point order (so without
\* duplicates), whose entries are exactly those of the output's previous
\* allow list and of the allow lists of all discovered files that parsed.
C1_UnionSortedDedup ==
    (WroteOk /\ (pre[output_path] = NoFile \/ Loads(pre[output_path]) # ERR)) =>
        /\ IsList(AfterAllow)
        /\ Elements(AfterAllow) = AllowIn(pre[output_path]) \cup InputUnion
        /\ StrictlyAscending(AfterAllow)

C1_Witness ==
    /\ WroteOk
    /\ AllowIn(pre[output_path]) # {}
    /\ ~(InputUnion \subseteq AllowIn(pre[output_path]))
    /\ ~(AllowIn(pre[output_path]) \subseteq InputUnion)
    /\ Cardinality(Discovered) = 2

\* ------------------------------------------------------------------- C2
\* C2: a run that follows another run, with no input file changed in
\* between, leaves permissions.allow of the output as it found it (an
\* output that did not parse before does not parse after), and when it
\* gets to line 171 its new_permissions is empty.
C2_Idempotent ==
    (pc = "done" /\ rerun) =>
        /\ Loads(fs[output_path]) = ERR <=> Loads(pre[output_path]) = ERR
        /\ GetOr(AfterPerm, KAllow, << "none" >>)
              = GetOr(GetOr(Loads(pre[output_path]), KPerm, EmptyDict), KAllow, << "none" >>)
        /\ (updateCalled /\ ~raised) => new_permissions = {}

Malformed == { p \in Discovered : Loads(pre[p]) = ERR }

OthersUnion(m) == UNION { AllowIn(pre[p]) : p \in Discovered \ {m} }

Before     == Denoted(pre[output_path])
BeforePerm == GetOr(Before, KPerm, EmptyDict)

\* C6: after a successful write, every top-level field of the existing
\* output document but permissions is as it was, deny and ask of
\* permissions are as they were, or empty lists when they were absent, and
\* when there was no output file the document written is
\* {permissions: {allow: sorted merged set, deny: [], ask: []}}.
C6_OnlyAllowChanges ==
    WroteOk =>
        /\ pre[output_path] = NoFile => After = CreatedDoc(Sorted(all_permissions))
        /\ IsDict(Before) =>
              /\ RemoveKey(After, KPerm) = RemoveKey(Before, KPerm)
              /\ \A k \in {KDeny, KAsk} :
                    GetOr(AfterPerm, k, << "none" >>) = GetOr(BeforePerm, k, EmptyList)

\* ------------------------------------------------------------------- C7
\* C7 as stated: every discovered input file holds after the run what it
\* held before.
C7_InputsReadOnly ==
    pc = "done" => \A p \in Discovered : fs[p] = pre[p]

\* C7 as amended: every file but the one args.output names, and so every
\* discovered input file that is not itself the output file, holds after
\* the run what it held before.
C7_OnlyOutputWritten ==
    \A p \in Paths \ {output_path} : fs[p] = pre[p]

C7_Witness ==
    /\ WroteOk
    /\ output_path = Out
    /\ fs[Out] # pre[Out]
    /\ readFiles = InputPaths

Repaired == Loads(Repair(pre[output_path], 1))

InitWF ==
    /\ Init
    /\ fs[output_path] = NoFile \/ WellFormed(fs[output_path])

SpecWF == InitWF /\ [][Next]_vars

\* C10: the output file, when it exists, is a settings document, and a run
\* never takes an entry out of its permissions.allow.
C10_MonotonicGrowth ==
    /\ fs[output_path] # NoFile => WellFormed(fs[output_path])
    /\ AllowIn(pre[output_path]) \subseteq AllowIn(fs[output_path])

====
